---- MODULE Spec2Model ----
(***************************************************************************)
(* Model of utoolbox.io.dataset_xr.format: the reader/writer session       *)
(* lifecycle (Format.BaseReaderWriter, Format.Reader, Format.Writer) and   *)
(* the format registry (FormatManager).                                    *)
(*                                                                         *)
(* A session keeps all of its state in instance attributes (format.py      *)
(* lines 74-78), so sessions do not influence one another; the model       *)
(* follows one session object at a time, from its construction by          *)
(* Format.get_reader / Format.get_writer on.  Constructing again replaces  *)
(* the session that is followed.                                           *)
(***************************************************************************)
EXTENDS Naturals, Sequences, FiniteSets

\* ------------------------------------------------------------------ bounds
NumFormats == 3     \* Format instances that exist
NumNames == 2       \* distinct Format names among them
NumRequests == 2    \* Request objects that exist
MaxCloseCalls == 2  \* cap of the _close invocation counter
DatasetLen == 2     \* logical units of the dataset a driver opens
NumInstances == 2   \* instances of a class with a decorated method / property
NumValues == 2      \* values a decorated function can return
NumArgs == 2        \* arguments a decorated function can be called with
MaxRuns == 2        \* cap of the counters of body executions and of wrappers

\* --------------------------------------------------------------- universe
FormatIds == 1..NumFormats
Requests == 1..NumRequests
Kinds == {"Reader", "Writer"}

\* a value that is no Format object / no Request object (also the value of
\* an attribute that __init__ has not assigned yet)
NoFormat == 0
NoRequest == 0
\* the cursor of a session that was never positioned
NoIndex == DatasetLen + 1

\* Format.name of each instance: instances f and f + NumNames share a name
NameOf(f) == ((f - 1) % NumNames) + 1

\* Format.description of each instance
DescOf(f) == f

\* the capability predicates of the drivers: instance f reads the requests
\* below its number and writes the requests of the other parity, so that a
\* format may read and not write, write and not read, both or neither
can_read(f, q) == f > q
can_write(f, q) == (f + q) % 2 = 1

\* the exceptions the code raises for the spec's error classes
UseAfterCloseError == "RuntimeError"
DuplicateError == "ValueError"
\* what a failing open hook raises
OpenError == "OpenError"

VARIABLES
    sess,       \* the attributes of the session object that is followed
    handed,     \* the constructor returned that object to the caller
    inScope,    \* the caller is inside a `with session:` block
    call,       \* the last call on the session API and its outcome
    formats,    \* FormatManager._formats
    overwriteUsed,  \* some add_format call passed overwrite=True
    regCall,    \* the last call on the FormatManager and its outcome
    searchers,  \* the callers that search the registry, each at its place in the loop
    fnOnce,     \* the run_once object that decorates a plain function
    meth,       \* the run_once object that decorates a method of a class
    hist,       \* per decorated function / instance: what its body has done so far
    lazy,       \* per instance: the attribute that lazy_property stores on it
    evals,      \* per instance: what the function under lazy_property has done so far
    decoCall    \* the last use of a decorated function and its outcome

sessVars == <<sess, handed, inScope, call>>
regVars == <<formats, overwriteUsed, regCall>>
searchVars == <<searchers>>
decoVars == <<fnOnce, meth, hist, lazy, evals, decoCall>>
vars == <<sess, handed, inScope, call, formats, overwriteUsed, regCall,
          searchers, fnOnce, meth, hist, lazy, evals, decoCall>>

\* ------------------------------------------------ session: the object
\* An object on which __init__ has not run yet.  kind and dataset belong
\* to the driver's class: Reader or Writer, and whether the driver defines
\* the attribute `dataset` that _assert_closed reads.
Blank(kind, hasDataset) ==
    [kind |-> kind, dataset |-> hasDataset,
     format |-> NoFormat, request |-> NoRequest, closed |-> FALSE,
     openCalls |-> 0,
     openSaw |-> [format |-> NoFormat, request |-> NoRequest, closed |-> FALSE],
     closeCalls |-> 0, index |-> NoIndex]

\* What a method call gives back: the object after it, what it returned or
\* raised, and whether it touched the underlying resource.
Outcome(s, result, access) == [sess |-> s, result |-> result, access |-> access]

Raised(result) == result \in {"RuntimeError", "AttributeError", "OpenError",
                              "IndexError", "TypeError", "ValueError"}

\* the abstract open hook of a driver: counted, with what it saw of the object
open(s, ok) ==
    Outcome([s EXCEPT !.openCalls = @ + 1,
                      !.openSaw = [format |-> s.format, request |-> s.request,
                                   closed |-> s.closed]],
            IF ok THEN "None" ELSE OpenError, TRUE)

\* __init__ as it would be with the open() call left out
init_NoOpen(s, f, q, ok) ==
    Outcome([s EXCEPT !.format = f, !.request = q, !.closed = FALSE], "None", FALSE)

\* BaseReaderWriter.__init__
__init__(s, f, q, ok) ==
    LET s1 == [s EXCEPT !.format = f, !.request = q, !.closed = FALSE]
    IN  open(s1, ok)

\* Format.get_reader / Format.get_writer: the constructor call; the object is
\* the result only if __init__ did not raise
get_session(kind, hasDataset, f, q, ok) ==
    LET o == __init__(Blank(kind, hasDataset), f, q, ok)
    IN  Outcome(o.sess, IF Raised(o.result) THEN o.result ELSE "session", o.access)

\* the cleanup hook
_close(s) == [s EXCEPT !.closeCalls = @ + 1]

_assert_closed(s) ==
    IF s.closed
    THEN (IF s.dataset THEN "RuntimeError" ELSE "AttributeError")
    ELSE "None"

\* __enter__ as it would be if entering a scope reopened the session
enter_Reopens(s) == Outcome([s EXCEPT !.closed = FALSE], "self", FALSE)

__enter__(s) ==
    LET a == _assert_closed(s)
    IN  Outcome(s, IF Raised(a) THEN a ELSE "self", FALSE)

__exit__(s) == Outcome(_close(s), "None", FALSE)

\* close as it would be without the test of the closed flag
close_NoGuard(s) == Outcome(_close([s EXCEPT !.closed = TRUE]), "None", FALSE)

close(s) ==
    IF s.closed
    THEN Outcome(s, "None", FALSE)
    ELSE Outcome(_close([s EXCEPT !.closed = TRUE]), "None", FALSE)

get_index(s) == Outcome(s, "None", FALSE)

__iter__(s) ==
    LET a == _assert_closed(s)
    IN  Outcome(s, a, FALSE)

\* `for data in reader`: iter(reader) calls __iter__, and a result that is no
\* iterator is a TypeError of the for statement; __iter__ sets no index and
\* yields nothing, so no index is visited
traverse(s) ==
    LET o == __iter__(s)
    IN  [sess |-> o.sess,
         result |-> IF Raised(o.result) THEN o.result ELSE "TypeError",
         access |-> o.access,
         visited |-> <<>>]

\* ---------------------------------- session: what a driver implements
\* set_index and the four accessors are abstract in format.py; a driver's
\* implementation is modelled as the design describes it: assert the session
\* is not closed, validate the index, then act on the resource.
ValidIndex(i) == i < DatasetLen

set_index(s, i) ==
    LET a == _assert_closed(s)
    IN  IF Raised(a) THEN Outcome(s, a, FALSE)
        ELSE IF ~ValidIndex(i) THEN Outcome(s, "IndexError", FALSE)
        ELSE Outcome([s EXCEPT !.index = i], "None", FALSE)

get_data(s, i) ==
    LET a == _assert_closed(s)
    IN  IF Raised(a) THEN Outcome(s, a, FALSE)
        ELSE IF ~ValidIndex(i) THEN Outcome(s, "IndexError", FALSE)
        ELSE Outcome(s, "data", TRUE)

get_metadata(s, i) ==
    LET a == _assert_closed(s)
    IN  IF Raised(a) THEN Outcome(s, a, FALSE)
        ELSE IF i # NoIndex /\ ~ValidIndex(i) THEN Outcome(s, "IndexError", FALSE)
        ELSE Outcome(s, "metadata", TRUE)

set_data(s, i) ==
    LET a == _assert_closed(s)
    IN  IF Raised(a) THEN Outcome(s, a, FALSE)
        ELSE IF ~ValidIndex(i) THEN Outcome(s, "IndexError", FALSE)
        ELSE Outcome(s, "None", TRUE)

set_metadata(s) ==
    LET a == _assert_closed(s)
    IN  IF Raised(a) THEN Outcome(s, a, FALSE)
        ELSE Outcome(s, "None", TRUE)

\* ------------------------------------------------ session: the actions
NoCall == [op |-> "none", result |-> "None", access |-> FALSE,
           closedBefore |-> FALSE,
           format |-> NoFormat, request |-> NoRequest, index |-> NoIndex,
           raised |-> FALSE, visited |-> <<>>]

\* the record of a call of `op` on object s with outcome o
Called(op, s, o) == [NoCall EXCEPT !.op = op, !.result = o.result,
                                  !.access = o.access, !.closedBefore = s.closed]

\* the indices a caller may pass: the valid ones and one past the end
Indices == 0..DatasetLen

Live == handed
CanCount(s) == s.closeCalls < MaxCloseCalls

GetSession ==
    /\ ~inScope
    /\ \E kind \in Kinds, d \in BOOLEAN, f \in FormatIds, q \in Requests, ok \in BOOLEAN :
         LET o == get_session(kind, d, f, q, ok)
         IN  /\ sess' = o.sess
             /\ handed' = ~Raised(o.result)
             /\ call' = [Called(IF kind = "Reader" THEN "get_reader" ELSE "get_writer",
                                Blank(kind, d), o)
                           EXCEPT !.format = f, !.request = q]
    /\ UNCHANGED <<inScope, regVars, searchVars, decoVars>>

Enter ==
    /\ Live /\ ~inScope
    /\ LET o == __enter__(sess)
       IN  /\ sess' = o.sess
           /\ inScope' = ~Raised(o.result)
           /\ call' = Called("__enter__", sess, o)
    /\ UNCHANGED <<handed, regVars, searchVars, decoVars>>

Exit ==
    /\ Live /\ inScope /\ CanCount(sess)
    /\ \E r \in BOOLEAN :
         LET o == __exit__(sess)
         IN  /\ sess' = o.sess
             /\ call' = [Called("__exit__", sess, o) EXCEPT !.raised = r]
    /\ inScope' = FALSE
    /\ UNCHANGED <<handed, regVars, searchVars, decoVars>>

Close ==
    /\ Live /\ (sess.closed \/ CanCount(sess))
    /\ LET o == close(sess)
       IN  /\ sess' = o.sess
           /\ call' = Called("close", sess, o)
    /\ UNCHANGED <<handed, inScope, regVars, searchVars, decoVars>>

GetIndex ==
    /\ Live
    /\ LET o == get_index(sess)
       IN  /\ sess' = o.sess
           /\ call' = Called("get_index", sess, o)
    /\ UNCHANGED <<handed, inScope, regVars, searchVars, decoVars>>

Iter ==
    /\ Live /\ sess.kind = "Reader"
    /\ LET o == __iter__(sess)
       IN  /\ sess' = o.sess
           /\ call' = Called("__iter__", sess, o)
    /\ UNCHANGED <<handed, inScope, regVars, searchVars, decoVars>>

Traverse ==
    /\ Live /\ sess.kind = "Reader"
    /\ LET o == traverse(sess)
       IN  /\ sess' = o.sess
           /\ call' = [Called("traverse", sess, o) EXCEPT !.visited = o.visited]
    /\ UNCHANGED <<handed, inScope, regVars, searchVars, decoVars>>

SetIndex ==
    /\ Live
    /\ \E i \in Indices :
         LET o == set_index(sess, i)
         IN  /\ sess' = o.sess
             /\ call' = [Called("set_index", sess, o) EXCEPT !.index = i]
    /\ UNCHANGED <<handed, inScope, regVars, searchVars, decoVars>>

GetData ==
    /\ Live /\ sess.kind = "Reader"
    /\ \E i \in Indices :
         LET o == get_data(sess, i)
         IN  /\ sess' = o.sess
             /\ call' = [Called("get_data", sess, o) EXCEPT !.index = i]
    /\ UNCHANGED <<handed, inScope, regVars, searchVars, decoVars>>

GetMetadata ==
    /\ Live /\ sess.kind = "Reader"
    /\ \E i \in Indices \cup {NoIndex} :
         LET o == get_metadata(sess, i)
         IN  /\ sess' = o.sess
             /\ call' = [Called("get_metadata", sess, o) EXCEPT !.index = i]
    /\ UNCHANGED <<handed, inScope, regVars, searchVars, decoVars>>

SetData ==
    /\ Live /\ sess.kind = "Writer"
    /\ \E i \in Indices :
         LET o == set_data(sess, i)
         IN  /\ sess' = o.sess
             /\ call' = [Called("set_data", sess, o) EXCEPT !.index = i]
    /\ UNCHANGED <<handed, inScope, regVars, searchVars, decoVars>>

SetMetadata ==
    /\ Live /\ sess.kind = "Writer"
    /\ LET o == set_metadata(sess)
       IN  /\ sess' = o.sess
           /\ call' = Called("set_metadata", sess, o)
    /\ UNCHANGED <<handed, inScope, regVars, searchVars, decoVars>>

SessionNext ==
    \/ GetSession \/ Enter \/ Exit \/ Close \/ GetIndex \/ Iter
    \/ SetIndex \/ GetData \/ GetMetadata \/ SetData \/ SetMetadata \/ Traverse

\* ------------------------------------------------------- FormatManager
Range(seq) == {seq[i] : i \in 1..Len(seq)}

IsFormat(x) == x \in FormatIds

get_format_names(fs) == [i \in 1..Len(fs) |-> NameOf(fs[i])]

\* what add_format leaves in _formats, and what it returned or raised
Registered(fs, result) == [formats |-> fs, result |-> result]

\* add_format as it would be with the overwrite test inverted
add_format_InvertedFlag(fs, x, overwrite) ==
    IF ~IsFormat(x) THEN Registered(fs, "TypeError")
    ELSE IF x \in Range(fs) THEN Registered(fs, "ValueError")
    ELSE IF NameOf(x) \in Range(get_format_names(fs))
         THEN (IF ~overwrite
               THEN Registered(Append(fs, x), "None")
               ELSE Registered(fs, "ValueError"))
    ELSE Registered(Append(fs, x), "None")

\* add_format as it would be without the test of the name
add_format_NoNameCheck(fs, x, overwrite) ==
    IF ~IsFormat(x) THEN Registered(fs, "TypeError")
    ELSE IF x \in Range(fs) THEN Registered(fs, "ValueError")
    ELSE Registered(Append(fs, x), "None")

\* add_format as it would be without the test of the instance
add_format_NoInstanceCheck(fs, x, overwrite) ==
    IF ~IsFormat(x) THEN Registered(fs, "TypeError")
    ELSE IF NameOf(x) \in Range(get_format_names(fs))
         THEN (IF overwrite
               THEN Registered(Append(fs, x), "None")
               ELSE Registered(fs, "ValueError"))
    ELSE Registered(Append(fs, x), "None")

\* add_format as it would be if it put the new Format first
add_format_Prepend(fs, x, overwrite) ==
    IF ~IsFormat(x) THEN Registered(fs, "TypeError")
    ELSE IF x \in Range(fs) THEN Registered(fs, "ValueError")
    ELSE IF NameOf(x) \in Range(get_format_names(fs))
         THEN (IF overwrite
               THEN Registered(<<x>> \o fs, "None")
               ELSE Registered(fs, "ValueError"))
    ELSE Registered(<<x>> \o fs, "None")

add_format(fs, x, overwrite) ==
    IF ~IsFormat(x) THEN Registered(fs, "TypeError")
    ELSE IF x \in Range(fs) THEN Registered(fs, "ValueError")
    ELSE IF NameOf(x) \in Range(get_format_names(fs))
         THEN (IF overwrite
               THEN Registered(Append(fs, x), "None")
               ELSE Registered(fs, "ValueError"))
    ELSE Registered(Append(fs, x), "None")

\* the loop of search_read_format from position i on: the first Format that
\* can read the request, or None (NoFormat) when the list is exhausted
RECURSIVE read_from(_, _, _)
read_from(fs, q, i) ==
    IF i > Len(fs) THEN NoFormat
    ELSE IF can_read(fs[i], q) THEN fs[i]
    ELSE read_from(fs, q, i + 1)

RECURSIVE write_from(_, _, _)
write_from(fs, q, i) ==
    IF i > Len(fs) THEN NoFormat
    ELSE IF can_write(fs[i], q) THEN fs[i]
    ELSE write_from(fs, q, i + 1)

search_read_format(fs, q) == read_from(fs, q, 1)

\* search_write_format as it would be if it asked can_read
search_write_UsesCanRead(fs, q) == read_from(fs, q, 1)

search_write_format(fs, q) == write_from(fs, q, 1)

\* text is a sequence of pieces: a name, a description, a literal
Piece(kind, v) == [t |-> kind, v |-> v]
Lit(s) == Piece(s, 0)
NewLine == Lit("\n")

\* "\n".join(ss)
RECURSIVE join(_, _)
join(sep, ss) ==
    IF Len(ss) = 0 THEN <<>>
    ELSE IF Len(ss) = 1 THEN ss[1]
    ELSE ss[1] \o <<sep>> \o join(sep, Tail(ss))

\* f"{format.name} - {format.description}"
FormatLine(f) == <<Piece("name", NameOf(f)), Lit(" - "), Piece("description", DescOf(f))>>

\* __str__ as it would be if it joined the lines with a comma
str_JoinComma(fs) ==
    IF Len(fs) = 0 THEN <<Lit("*empty*")>>
    ELSE join(Lit(", "), [i \in 1..Len(fs) |-> FormatLine(fs[i])])

\* FormatManager.__str__
__str__(fs) ==
    IF Len(fs) = 0 THEN <<Lit("*empty*")>>
    ELSE join(NewLine, [i \in 1..Len(fs) |-> FormatLine(fs[i])])

NoRegCall == [op |-> "none", result |-> "None", format |-> NoFormat,
              overwrite |-> FALSE, request |-> NoRequest, found |-> NoFormat,
              names |-> <<>>, text |-> <<>>]

AddFormat ==
    /\ \E x \in FormatIds \cup {NoFormat}, ow \in BOOLEAN :
         LET o == add_format(formats, x, ow)
         IN  /\ formats' = o.formats
             /\ overwriteUsed' = (overwriteUsed \/ ow)
             /\ regCall' = [NoRegCall EXCEPT !.op = "add_format", !.result = o.result,
                                             !.format = x, !.overwrite = ow]
    /\ UNCHANGED <<sessVars, searchVars, decoVars>>

SearchRead ==
    /\ \E q \in Requests :
         LET f == search_read_format(formats, q)
         IN  regCall' = [NoRegCall EXCEPT !.op = "search_read_format", !.request = q,
                                         !.found = f]
    /\ UNCHANGED <<formats, overwriteUsed, sessVars, searchVars, decoVars>>

SearchWrite ==
    /\ \E q \in Requests :
         LET f == search_write_format(formats, q)
         IN  regCall' = [NoRegCall EXCEPT !.op = "search_write_format", !.request = q,
                                         !.found = f]
    /\ UNCHANGED <<formats, overwriteUsed, sessVars, searchVars, decoVars>>

GetFormatNames ==
    /\ regCall' = [NoRegCall EXCEPT !.op = "get_format_names",
                                    !.names = get_format_names(formats)]
    /\ UNCHANGED <<formats, overwriteUsed, sessVars, searchVars, decoVars>>

\* show(): print(self)
Show ==
    /\ regCall' = [NoRegCall EXCEPT !.op = "show", !.text = __str__(formats)]
    /\ UNCHANGED <<formats, overwriteUsed, sessVars, searchVars, decoVars>>

\* ------------------------------------------ searches, one iteration a step
\* Two callers search the same FormatManager at the same time; a step is one
\* iteration of the for loop of search_read_format / search_write_format.
Callers == {"a", "b"}
SearchKinds == {"read", "write"}

Idle == [pc |-> "idle", kind |-> "read", request |-> NoRequest, pos |-> 1,
         found |-> NoFormat]

\* the loop with a cache of the last match: the Format found is moved to
\* the front of _formats
scan_MovesToFront(fs, s) ==
    IF s.pos > Len(fs)
    THEN [formats |-> fs, searcher |-> [s EXCEPT !.pc = "done", !.found = NoFormat]]
    ELSE IF (IF s.kind = "read" THEN can_read(fs[s.pos], s.request)
                                ELSE can_write(fs[s.pos], s.request))
    THEN [formats |-> <<fs[s.pos]>> \o SubSeq(fs, 1, s.pos - 1)
                        \o SubSeq(fs, s.pos + 1, Len(fs)),
          searcher |-> [s EXCEPT !.pc = "done", !.found = fs[s.pos]]]
    ELSE [formats |-> fs, searcher |-> [s EXCEPT !.pos = @ + 1]]

\* one iteration of `for f in self._formats`: the list iterator is
\* exhausted (the else branch returns None), or f matches and is returned,
\* or the loop goes on with the next position
scan(fs, s) ==
    IF s.pos > Len(fs)
    THEN [formats |-> fs, searcher |-> [s EXCEPT !.pc = "done", !.found = NoFormat]]
    ELSE IF (IF s.kind = "read" THEN can_read(fs[s.pos], s.request)
                                ELSE can_write(fs[s.pos], s.request))
    THEN [formats |-> fs, searcher |-> [s EXCEPT !.pc = "done", !.found = fs[s.pos]]]
    ELSE [formats |-> fs, searcher |-> [s EXCEPT !.pos = @ + 1]]

StartSearch ==
    /\ \E c \in Callers, k \in SearchKinds, q \in Requests :
         /\ searchers[c].pc # "scanning"
         /\ searchers' = [searchers EXCEPT ![c] =
                [pc |-> "scanning", kind |-> k, request |-> q, pos |-> 1,
                 found |-> NoFormat]]
    /\ UNCHANGED <<sessVars, regVars, decoVars>>

ScanStep ==
    /\ \E c \in Callers :
         /\ searchers[c].pc = "scanning"
         /\ LET o == scan(formats, searchers[c])
            IN  /\ formats' = o.formats
                /\ searchers' = [searchers EXCEPT ![c] = o.searcher]
    /\ UNCHANGED <<sessVars, overwriteUsed, regCall, decoVars>>

ConcurrentSearchNext == StartSearch \/ ScanStep

\* the registries add_format can build: the sequences of distinct instances
RECURSIVE Registries(_)
Registries(n) ==
    IF n = 0 THEN {<<>>}
    ELSE Registries(n - 1) \cup
         {Append(fs, x) : fs \in {g \in Registries(n - 1) : Len(g) = n - 1},
                          x \in FormatIds}

NamesDistinct(fs) ==
    \A i, j \in 1..Len(fs) : i # j => NameOf(fs[i]) # NameOf(fs[j])

RegistryNext == AddFormat \/ SearchRead \/ SearchWrite \/ GetFormatNames \/ Show

\* --------------------------------------------- utils.decorators
Instances == 1..NumInstances
Values == 1..NumValues
Args == 1..NumArgs

\* no value: a slot or attribute that was never assigned holds none
NoValue == 0
\* the plain function, among the things whose body run_once guards
PlainFn == 0
Targets == {PlainFn} \cup Instances

\* a run_once object right after __init__: _func is set, the slot _result
\* is not
NewOnce == [exists |-> TRUE, set |-> FALSE, value |-> NoValue]
\* no run_once object (a key that the dict _methods does not hold)
Absent == [exists |-> FALSE, set |-> FALSE, value |-> NoValue]

\* what a use of a decorated function gives back: the state of the object
\* it used, "return" with the value or "raise", and whether the body ran
Used(obj, result, value, ran) ==
    [once |-> obj, result |-> result, value |-> value, ran |-> ran]

\* __call__ as it would be without the lookup of _result
call_NoCache(w, raises, v) ==
    IF raises THEN Used(w, "raise", NoValue, TRUE)
    ELSE Used([w EXCEPT !.set = TRUE, !.value = v], "return", v, TRUE)

\* __call__ as it would be if a failed call were remembered too
call_CachesFailure(w, raises, v) ==
    IF w.set THEN Used(w, "return", w.value, FALSE)
    ELSE IF raises THEN Used([w EXCEPT !.set = TRUE], "raise", NoValue, TRUE)
    ELSE Used([w EXCEPT !.set = TRUE, !.value = v], "return", v, TRUE)

\* run_once.__call__: the body of the wrapped function raises or returns v
run_once__call__(w, raises, v) ==
    IF w.set THEN Used(w, "return", w.value, FALSE)
    ELSE IF raises THEN Used(w, "raise", NoValue, TRUE)
    ELSE Used([w EXCEPT !.set = TRUE, !.value = v], "return", v, TRUE)

\* the dict _methods of a run_once object whose slot _methods is not assigned
NoMethods == [set |-> FALSE, map |-> [i \in Instances |-> Absent]]

\* what __get__ gives back: the descriptor after it, the key of the wrapper
\* it returned, and whether it constructed that wrapper
Got(d, key, fresh) == [meth |-> d, key |-> key, fresh |-> fresh]

\* __get__ as it would be if the wrappers were keyed by the function, not
\* by the bound method: all instances use the wrapper of the first
get_SharedWrapper(d, inst) ==
    LET k == CHOOSE i \in Instances : \A j \in Instances : i <= j
    IN  IF d.set /\ d.map[k].exists
        THEN Got(d, k, FALSE)
        ELSE Got([set |-> TRUE, map |-> [d.map EXCEPT ![k] = NewOnce]], k, TRUE)

\* run_once.__get__: the bound method of the instance is the key
run_once__get__(d, inst) ==
    IF d.set /\ d.map[inst].exists
    THEN Got(d, inst, FALSE)
    ELSE IF d.set
    THEN Got([d EXCEPT !.map[inst] = NewOnce], inst, TRUE)
    ELSE Got([set |-> TRUE,
              map |-> [i \in Instances |-> IF i = inst THEN NewOnce ELSE Absent]],
             inst, TRUE)

\* the instance attribute of the property's name: not in the instance's
\* __dict__ yet
NoAttr == [set |-> FALSE, value |-> NoValue]

\* __get__ as it would be without the setattr
lazy_get_NoStore(a, raises, v) ==
    IF raises THEN Used(a, "raise", NoValue, TRUE)
    ELSE Used(a, "return", v, TRUE)

\* lazy_property.__get__: the function raises or returns v
lazy_property__get__(a, raises, v) ==
    IF raises THEN Used(a, "raise", NoValue, TRUE)
    ELSE Used([set |-> TRUE, value |-> v], "return", v, TRUE)

\* instance.name: lazy_property defines __get__ only, so an entry of the
\* instance's __dict__ comes first and the descriptor is asked without one
getattr(a, raises, v) ==
    IF a.set THEN Used(a, "return", a.value, FALSE)
    ELSE lazy_property__get__(a, raises, v)

\* what a body has done so far: its executions, whether one has returned,
\* the value the first of those returned, the wrappers made for it
NoHistory == [runs |-> 0, done |-> FALSE, value |-> NoValue, made |-> 0]

\* the history after a use in which the body ran or not, raised or
\* returned v, and a wrapper was constructed or not
Noted(h, ran, raises, v, fresh) ==
    [runs |-> IF ran THEN h.runs + 1 ELSE h.runs,
     done |-> h.done \/ (ran /\ ~raises),
     value |-> IF ~h.done /\ ran /\ ~raises THEN v ELSE h.value,
     made |-> IF fresh THEN h.made + 1 ELSE h.made]

NoDecoCall == [op |-> "none", target |-> PlainFn, arg |-> NoValue,
               result |-> "none", value |-> NoValue, ran |-> FALSE, failed |-> FALSE,
               fresh |-> FALSE]

\* the record of a use: what the caller got, whether the body ran, whether
\* it ran and raised, whether a wrapper was constructed
Use(op, target, arg, o, raises, fresh) ==
    [op |-> op, target |-> target, arg |-> arg, result |-> o.result,
     value |-> o.value, ran |-> o.ran, failed |-> (o.ran /\ raises), fresh |-> fresh]

\* f(a) on a plain function decorated with run_once
FnCall ==
    /\ \E a \in Args, raises \in BOOLEAN, v \in Values :
         LET o == run_once__call__(fnOnce, raises, v)
         IN  /\ o.ran => hist[PlainFn].runs < MaxRuns
             /\ fnOnce' = o.once
             /\ hist' = [hist EXCEPT ![PlainFn] = Noted(@, o.ran, raises, v, FALSE)]
             /\ decoCall' = Use("call", PlainFn, a, o, raises, FALSE)
    /\ UNCHANGED <<sessVars, regVars, searchVars, meth, lazy, evals>>

\* instance.method, not called
MethodGet ==
    /\ \E i \in Instances :
         LET g == run_once__get__(meth, i)
         IN  /\ g.fresh => hist[i].made < MaxRuns
             /\ meth' = g.meth
             /\ hist' = [hist EXCEPT ![i] = Noted(@, FALSE, FALSE, NoValue, g.fresh)]
             /\ decoCall' = Use("method_get", i, NoValue,
                                Used(Absent, "none", NoValue, FALSE), FALSE, g.fresh)
    /\ UNCHANGED <<sessVars, regVars, searchVars, fnOnce, lazy, evals>>

\* instance.method(...): the arguments reach the body only, which raises or
\* returns v
MethodCall ==
    /\ \E i \in Instances, raises \in BOOLEAN, v \in Values :
         LET g == run_once__get__(meth, i)
             o == run_once__call__(g.meth.map[g.key], raises, v)
         IN  /\ g.fresh => hist[i].made < MaxRuns
             /\ o.ran => hist[i].runs < MaxRuns
             /\ meth' = [g.meth EXCEPT !.map[g.key] = o.once]
             /\ hist' = [hist EXCEPT ![i] = Noted(@, o.ran, raises, v, g.fresh)]
             /\ decoCall' = Use("method_call", i, NoValue, o, raises, g.fresh)
    /\ UNCHANGED <<sessVars, regVars, searchVars, fnOnce, lazy, evals>>

\* instance.name on a lazy_property
LazyGet ==
    /\ \E i \in Instances, raises \in BOOLEAN, v \in Values :
         LET o == getattr(lazy[i], raises, v)
         IN  /\ o.ran => evals[i].runs < MaxRuns
             /\ lazy' = [lazy EXCEPT ![i] = o.once]
             /\ evals' = [evals EXCEPT ![i] = Noted(@, o.ran, raises, v, FALSE)]
             /\ decoCall' = Use("lazy_get", i, NoValue, o, raises, FALSE)
    /\ UNCHANGED <<sessVars, regVars, searchVars, fnOnce, meth, hist>>

OnceNext == FnCall \/ MethodGet \/ MethodCall
LazyNext == LazyGet
DecoratorNext == OnceNext \/ LazyNext

DecoInit ==
    /\ fnOnce = NewOnce
    /\ meth = NoMethods
    /\ hist = [t \in Targets |-> NoHistory]
    /\ lazy = [i \in Instances |-> NoAttr]
    /\ evals = [i \in Instances |-> NoHistory]
    /\ decoCall = NoDecoCall

Init ==
    /\ sess = Blank("Reader", FALSE)
    /\ handed = FALSE
    /\ inScope = FALSE
    /\ call = NoCall
    /\ formats = <<>>
    /\ overwriteUsed = FALSE
    /\ regCall = NoRegCall
    /\ searchers = [c \in Callers |-> Idle]
    /\ DecoInit

\* a populated registry, no add_format running, nobody searching yet
SearchInit ==
    /\ sess = Blank("Reader", FALSE)
    /\ handed = FALSE
    /\ inScope = FALSE
    /\ call = NoCall
    /\ formats \in {fs \in Registries(NumFormats) :
                        \A i, j \in 1..Len(fs) : i # j => fs[i] # fs[j]}
    /\ overwriteUsed = ~NamesDistinct(formats)
    /\ regCall = NoRegCall
    /\ searchers = [c \in Callers |-> Idle]
    /\ DecoInit

Next == SessionNext \/ RegistryNext \/ ConcurrentSearchNext \/ DecoratorNext

SessionSpec == Init /\ [][SessionNext]_vars
RegistrySpec == Init /\ [][RegistryNext]_vars
ConcurrentSearchSpec == SearchInit /\ [][ConcurrentSearchNext]_vars
\* calls of a decorated plain function, next to accesses of a decorated method
OnceCallSpec == Init /\ [][FnCall \/ MethodGet]_vars
\* accesses and calls of a decorated method on several instances
OnceMethodSpec == Init /\ [][MethodGet \/ MethodCall]_vars
LazySpec == Init /\ [][LazyNext]_vars
Spec == Init /\ [][Next]_vars
\* ------------------------------------------------------------- the claims
Ctors == {"get_reader", "get_writer"}
Accessors == {"get_data", "get_metadata", "set_data", "set_metadata"}

\* close() or a scoped exit has completed on the session: _close runs in
\* these two places only
Released(s) == s.closed \/ s.closeCalls > 0

\* C1: a scoped exit, whether or not the enclosed work raised, leaves the
\* session closed with the cleanup hook _close having run exactly once.
C1_ScopedExitCloses ==
    [][call'.op = "__exit__" => (sess'.closed /\ sess'.closeCalls = 1)]_vars

\* C2: over any sequence of close() calls and scoped enter/exit pairs on one
\* session, _close is invoked at most once.
C2_CleanupAtMostOnce == handed => sess.closeCalls <= 1

\* C3: close() is idempotent: a close() call on a session that close() has
\* already closed changes nothing observable (closed flag, format, request,
\* number of _close invocations) and raises nothing.
C3_CloseIdempotent ==
    [][(call'.op = "close" /\ sess.closed)
        => (/\ sess'.closed = sess.closed
            /\ sess'.format = sess.format
            /\ sess'.request = sess.request
            /\ sess'.closeCalls = sess.closeCalls
            /\ sess' = sess
            /\ ~Raised(call'.result))]_vars

C3_Witness ==
    /\ handed /\ call.op = "close" /\ call.closedBefore
    /\ sess.closed /\ sess.closeCalls = 1 /\ call.result = "None"

\* C4: once closed is true, no later operation on the session (enter, exit,
\* close, get_index, set_index, traversal, data or metadata access) makes it
\* false again.
C4_ClosedMonotonic ==
    [][(handed /\ sess.closed /\ call'.op \notin Ctors) => sess'.closed]_vars

C4_Witness ==
    /\ handed /\ sess.closed /\ call.closedBefore /\ call.op = "__exit__"

\* C5: scoped entry on a closed session fails with UseAfterCloseError and
\* changes nothing; on a session that is not closed it returns the session
\* itself and changes nothing.
C5_EnterChecksClosed ==
    [][call'.op = "__enter__"
        => (/\ sess' = sess
            /\ call'.result = IF sess.closed THEN UseAfterCloseError ELSE "self")]_vars

\* C6: once close() or a scoped exit has completed, get_data, get_metadata,
\* set_data, set_metadata and starting a Reader traversal each fail with
\* UseAfterCloseError and do not touch the underlying resource.
C6_AccessAfterCloseFails ==
    [][(call'.op \in Accessors \cup {"__iter__"} /\ Released(sess))
        => (call'.result = UseAfterCloseError /\ ~call'.access)]_vars

\* C7: get_reader / get_writer call the open hook exactly once, with the
\* session already bound to its Format and Request and closed = false; the
\* session is handed to the caller only if open did not fail, and a failure
\* of open is the failure of the constructor call.  A session in the hands
\* of a caller has always been opened.
C7_ConstructionOpens ==
    /\ [](handed => sess.openCalls = 1)
    /\ [][call'.op \in Ctors
           => (/\ sess'.openCalls = 1
               /\ sess'.openSaw = [format |-> call'.format,
                                   request |-> call'.request, closed |-> FALSE]
               /\ sess'.format = call'.format
               /\ sess'.request = call'.request
               /\ ~sess'.closed
               /\ handed' = (call'.result = "session")
               /\ (~handed' => call'.result = OpenError))]_vars

C7_Witness ==
    /\ call.op = "get_reader" /\ call.result = "session" /\ handed
    /\ sess.openCalls = 1 /\ sess.format = call.format /\ ~sess.closed

\* the add_format call of this step names a Format that is not registered
\* and whose name a registered Format holds
Collides(fs, c) ==
    /\ c.op = "add_format"
    /\ IsFormat(c.format)
    /\ c.format \notin Range(fs)
    /\ NameOf(c.format) \in Range(get_format_names(fs))

\* C8: add_format with overwrite=false on a name collision fails with
\* DuplicateError and leaves the registry as it was.
C8_CollisionRejected ==
    [][(Collides(formats, regCall') /\ ~regCall'.overwrite)
        => (formats' = formats /\ regCall'.result = DuplicateError)]_vars

C8_Witness ==
    /\ Collides(formats, regCall) /\ ~regCall.overwrite
    /\ regCall.result = DuplicateError

\* C9: add_format with overwrite=true on a name collision replaces the
\* same-named entry in place: same length, the new Format at the position
\* the old one held, all other entries where they were.
C9_OverwriteReplaces ==
    [][(Collides(formats, regCall') /\ regCall'.overwrite)
        => \E i \in 1..Len(formats) :
             /\ NameOf(formats[i]) = NameOf(regCall'.format)
             /\ formats' = [formats EXCEPT ![i] = regCall'.format]]_vars

\* C10: as long as no add_format call has requested overwrite, no two
\* registered Formats share a name.
C10_NamesUnique ==
    ~overwriteUsed =>
        \A i, j \in 1..Len(formats) :
            i # j => get_format_names(formats)[i] # get_format_names(formats)[j]

C10_Witness ==
    /\ ~overwriteUsed /\ Len(formats) = NumNames
    /\ Collides(formats, regCall) /\ regCall.result = DuplicateError
\* C11: no Format instance occurs twice in the registry, whatever the
\* overwrite flags were; add_format of a registered instance fails with
\* DuplicateError, with or without overwrite, and leaves the registry as it
\* was.
C11_InstanceOnce ==
    /\ [](\A i, j \in 1..Len(formats) : i # j => formats[i] # formats[j])
    /\ [][(regCall'.op = "add_format" /\ regCall'.format \in Range(formats))
           => (formats' = formats /\ regCall'.result = DuplicateError)]_vars

C11_Witness ==
    /\ regCall.op = "add_format" /\ regCall.overwrite
    /\ regCall.format \in Range(formats)
    /\ regCall.result = DuplicateError
    /\ overwriteUsed /\ Len(formats) = NumFormats

\* r is what a first-match search over fs has to return, given which
\* entries match: the earliest matching entry, or None when none matches
FirstMatch(fs, r, matches) ==
    IF \E i \in 1..Len(fs) : matches[i]
    THEN \E i \in 1..Len(fs) :
            /\ fs[i] = r
            /\ matches[i]
            /\ \A j \in 1..(i - 1) : ~matches[j]
    ELSE r = NoFormat

\* C12: search_read_format returns the earliest-registered Format whose
\* can_read(request) is true, and None, without raising, when there is none;
\* search_write_format does the same with can_write alone.
C12_FirstMatch ==
    [][/\ regCall'.op = "search_read_format"
          => /\ FirstMatch(formats, regCall'.found,
                           [i \in 1..Len(formats) |-> can_read(formats[i], regCall'.request)])
             /\ ~Raised(regCall'.result)
       /\ regCall'.op = "search_write_format"
          => /\ FirstMatch(formats, regCall'.found,
                           [i \in 1..Len(formats) |-> can_write(formats[i], regCall'.request)])
             /\ ~Raised(regCall'.result)]_vars

\* the registry [A(false), B(true), C(true)] of the design, searched
C12_Witness ==
    /\ regCall.op = "search_read_format"
    /\ Len(formats) = 3
    /\ ~can_read(formats[1], regCall.request)
    /\ can_read(formats[2], regCall.request)
    /\ can_read(formats[3], regCall.request)
    /\ regCall.found = formats[2]

\* the lines of a text: its pieces between the line breaks
RECURSIVE Lines(_)
Lines(text) ==
    IF \A k \in 1..Len(text) : text[k] # NewLine THEN <<text>>
    ELSE LET k == CHOOSE k \in 1..Len(text) :
                    text[k] = NewLine /\ \A m \in 1..(k - 1) : text[m] # NewLine
         IN  <<SubSeq(text, 1, k - 1)>> \o Lines(SubSeq(text, k + 1, Len(text)))

\* C15: names() is the list of the registered names in registration order;
\* the listing has one line "<name> - <description>" per registered Format,
\* in registration order, and is the marker "*empty*" for an empty registry.
C15_Listing ==
    [][/\ regCall'.op = "get_format_names"
          => /\ Len(regCall'.names) = Len(formats)
             /\ \A i \in 1..Len(formats) : regCall'.names[i] = NameOf(formats[i])
       /\ regCall'.op = "show"
          => IF Len(formats) = 0
             THEN regCall'.text = <<Lit("*empty*")>>
             ELSE /\ Len(Lines(regCall'.text)) = Len(formats)
                  /\ \A i \in 1..Len(formats) :
                       Lines(regCall'.text)[i]
                         = <<Piece("name", NameOf(formats[i])), Lit(" - "),
                             Piece("description", DescOf(formats[i]))>>]_vars

C15_Witness ==
    /\ regCall.op = "show" /\ Len(formats) = NumFormats
    /\ Len(Lines(regCall.text)) = NumFormats

Alone(fs, s) ==
    IF s.kind = "read" THEN search_read_format(fs, s.request)
                       ELSE search_write_format(fs, s.request)

\* C13: a step of a search leaves the registry as it is, and with several
\* searches interleaved (no add_format running) each search ends with the
\* result it would get when run alone on that registry.
C13_SearchesIndependent ==
    [][/\ formats' = formats
       /\ \A c \in Callers :
            (searchers[c].pc = "scanning" /\ searchers'[c].pc = "done")
                => searchers'[c].found = Alone(formats, searchers'[c])]_vars

C13_Witness ==
    /\ searchers["a"].pc = "done" /\ searchers["a"].found # NoFormat
    /\ searchers["b"].pc = "scanning" /\ searchers["b"].pos > 1
    /\ Len(formats) = NumFormats

\* C14: a sequential traversal of an open Reader session over DatasetLen
\* units visits the indices 0 .. DatasetLen - 1, each once, in order, and
\* ends; on a closed session it raises UseAfterCloseError.
C14_TraversalVisitsAll ==
    [][call'.op = "traverse"
        => IF sess.closed
           THEN call'.result = UseAfterCloseError
           ELSE /\ ~Raised(call'.result)
                /\ call'.visited = [k \in 1..DatasetLen |-> k - 1]]_vars

C17_EvaluatedOnce == \A i \in Instances : evals[i].runs <= 1

\* C17 as amended: for every instance, an access evaluates the function
\* until one evaluation has returned normally; that access stores the value
\* on the instance, every later access returns the stored value without
\* calling the function, and an access on one instance leaves the others
\* as they were.
C17_MemoizedAfterFirstReturn ==
    [][decoCall'.op = "lazy_get"
        => LET i == decoCall'.target
           IN  /\ evals[i].done
                    => (/\ ~decoCall'.ran
                        /\ decoCall'.result = "return"
                        /\ decoCall'.value = evals[i].value
                        /\ lazy'[i] = lazy[i])
               /\ ~evals[i].done => decoCall'.ran
               /\ (decoCall'.ran /\ ~decoCall'.failed)
                    => (/\ decoCall'.result = "return"
                        /\ lazy'[i] = [set |-> TRUE, value |-> decoCall'.value]
                        /\ evals'[i].value = decoCall'.value)
               /\ \A j \in Instances \ {i} :
                    lazy'[j] = lazy[j] /\ evals'[j] = evals[j]]_vars

C17_Witness ==
    /\ decoCall.op = "lazy_get" /\ ~decoCall.ran
    /\ \A i \in Instances : evals[i].done
    /\ \E i, j \in Instances : evals[i].value # evals[j].value
    /\ decoCall.value = evals[decoCall.target].value
    /\ evals[decoCall.target].runs = 2

====
